---- MODULE Spec2Model ----
(***************************************************************************)
(* A model of the motion-analysis engine:                                  *)
(*   - VideoRecordingAnalyzer (detect_motion_events,                       *)
(*     identify_activity_periods)        instruction_analyzer.py           *)
(*   - InstructionVideoComparator (estimate_step_timing, analyze_coverage, *)
(*     identify_deltas)                  instruction_analyzer.py           *)
(*   - ObjectTracker / TrackedObject     object_tracker.py                 *)
(*   - analyze_instruction_and_video     instruction_analyzer.py           *)
(*   - VideoProcessor.get_video_info     video_analyzer.py                 *)
(*   - TrackedVideoPreviewWidget         tracked_video_preview.py          *)
(* The specifications of the module:                                       *)
(*   Spec          the tracker on short streams of frames                  *)
(*   SpecHistory   the tracker following one box over a long session       *)
(*   SpecClassify  the tracker on the first frame, one region in it        *)
(*   SpecConfig    the tracker's constructor on configuration files        *)
(*   SpecFixture   the tracker on a large region that stays in place       *)
(*   SpecVideo     motion events and activity periods of one recording     *)
(*   SpecSampling  detect_motion_events run to its end                     *)
(*   SpecPreview   the preview widget's handlers and the trackers it feeds *)
(*   SpecCompare   the comparator on given steps and periods               *)
(*   SpecPipeline  the analysis of a recording followed by the comparison  *)
(* Each holds the variables of the components it does not run at their     *)
(* idle values.                                                            *)
(*                                                                         *)
(* Numbers.  Times are kept in milliseconds (Seconds(n) = 1000 n), so that *)
(* frame/fps is exact for the frame rates and strides enumerated here.     *)
(* Ratios (coverage, confidence) are kept as num/den pairs and compared by *)
(* cross-multiplication.                                                   *)
(***************************************************************************)
EXTENDS Integers, Sequences, FiniteSets, TLC

VARIABLES
    \* ---- VideoRecordingAnalyzer
    fps,               \* self.fps (frames per second of the stream)
    video_frame_count, \* self.frame_count (the container's frame count)
    sample_rate,       \* detect_motion_events' parameter
    frame_idx,         \* the sampling loop's frame_idx
    prev_frame,        \* TRUE when prev_frame is not None
    events,            \* the loop's local list of events
    motion_events,     \* self.motion_events
    activity_periods,  \* self.activity_periods
    va_pc,             \* "idle" | "sampling" | "detected" | "identified" | "raised"
    va_error,          \* the exception that ended the analysis, or "none"
    duration,          \* self.duration, in milliseconds (a num/den pair)
    video_info,        \* <<>> or <<result of VideoProcessor.get_video_info()>>
    info_error,        \* the exception get_video_info raised, or "none"
    \* ---- history of the analyzer's run (not program state)
    motion_seen,       \* TRUE once a sampled frame scored above the threshold
    frames_unread,     \* TRUE when the read that ended the loop failed on a
                       \* frame that readable frames follow
    sample_scores,     \* np.mean(diff) of each sampled frame read, in order
                       \* (NoScore for a frame without a previous one)
    \* ---- InstructionVideoComparator
    assembly_steps,    \* instruction_analysis['assembly_steps']
    video_periods,     \* video_analysis['activity_periods']
    estimated_steps,   \* <<>> or <<result of estimate_step_timing()>>
    coverage,          \* <<>> or <<result of analyze_coverage()>>
    deltas,            \* <<>> or <<result of identify_deltas()>>
    cmp_error,         \* the exception a comparator call raised, or "none"
    \* ---- ObjectTracker
    user_config,       \* the parsed configuration file, <<>> without one
    config,            \* self.config
    tracked_objects,   \* self.tracked_objects: id -> TrackedObject
    kalman_filters,    \* self.kalman_filters: id -> filter state
    next_object_id,    \* self.next_object_id
    frame_count,       \* self.frame_count
    \* ---- history of the tracker's run (not program state)
    created_ids,       \* every id given to a new entity, in order
    removed,           \* one record per eviction: id, last_seen_frame, at
    match_log,         \* what _update_tracking did with each region of
                       \* the last frame
    last_frame,        \* what the detectors found in the last frame
    \* ---- TrackedVideoPreviewWidget
    cap,               \* self.cap: 0 for None, else the video it was opened on
    current_frame,     \* self.current_frame
    total_frames,      \* self.total_frames
    is_playing,        \* self.is_playing
    tracking_enabled,  \* self.tracking_enabled
    object_tracker,    \* self.object_tracker: the number of the instance
    play_pending,      \* play_loop callbacks scheduled with parent.after
    \* ---- history of the widget's run (not program state)
    frames_fed         \* per ObjectTracker instance, the frames passed to its
                       \* process_frame, in order, as <<video, position>>

video_vars == <<fps, video_frame_count, sample_rate, frame_idx, prev_frame,
                events, motion_events, activity_periods, va_pc, va_error,
                duration, video_info, info_error, motion_seen, frames_unread,
                sample_scores>>
cmp_vars == <<assembly_steps, video_periods, estimated_steps, coverage,
              deltas, cmp_error>>
tracker_vars == <<user_config, config, tracked_objects, kalman_filters, next_object_id,
                  frame_count, created_ids, removed, match_log, last_frame>>
preview_vars == <<cap, current_frame, total_frames, is_playing,
                  tracking_enabled, object_tracker, play_pending, frames_fed>>
vars == <<video_vars, cmp_vars, tracker_vars, preview_vars>>

\* ------------------------------------------------------------------ bounds
\* Sampled frames read from one stream, at most.
MaxSamples == 10
\* Instruction steps and activity periods handed to the comparator, at most.
MaxSteps == 5
MaxPeriods == 3

\* ----------------------------------------------------------------- helpers
Seconds(n) == n * 1000

\* The entry of sample_scores for a frame no difference was taken of
\* (prev_frame is None).
NoScore == -1

\* A frame in which neither detector finds anything.
NoFrame == [contours |-> <<>>, hands |-> <<>>]

Last(s) == s[Len(s)]

\* a / b as Python's true division: a num/den pair, DivError when b = 0.
DivError == [num |-> 0, den |-> 0]
TrueDiv(a, b) == IF b = 0 THEN DivError ELSE [num |-> a, den |-> b]
Raised(r) == r.den = 0
RatOne == [num |-> 1, den |-> 1]
RatZero == [num |-> 0, den |-> 1]
RatLeq(r, s) == r.num * s.den <= s.num * r.den
\* Python's min(r, s): the first argument unless the second is smaller.
RatMin(r, s) == IF RatLeq(r, s) THEN r ELSE s
RatTimes(r, k) == [num |-> r.num * k, den |-> r.den]

\* ------------------------------------------------ VideoRecordingAnalyzer
\* Frame rates of the streams read: a stream without a usable header (0)
\* and a 30 fps recording.
FpsSet == {0, 30}
\* Container frame counts: unknown (0) or 900 frames.
FrameCountSet == {0, 900}
\* Sampling strides: the default and a three-second stride at 30 fps.
SampleRateSet == {30, 90}
\* Mean absolute differences between two sampled frames (np.mean(diff)):
\* at the motion threshold, at the high-motion threshold, above both.
ScoreSet == {10, 30, 40}

MotionThreshold == 10
HighMotionThreshold == 30
GapSeconds == 5
MinPeriodSeconds == 2

\* self.duration = self.frame_count / self.fps if self.fps > 0 else 0, in
\* milliseconds.
Duration(count, rate) ==
    IF rate > 0 THEN TrueDiv(count * 1000, rate) ELSE RatZero

\* timestamp = frame_idx / self.fps, in milliseconds.
Timestamp(frame, rate) == (frame * 1000) \div rate

MotionEvent(frame, rate, score) ==
    [frame |-> frame,
     timestamp |-> Timestamp(frame, rate),
     motion_score |-> score,
     type |-> IF score > HighMotionThreshold THEN "high_motion"
              ELSE "moderate_motion"]

\* frame_idx += sample_rate
NextIndexSame(idx, rate) == idx
NextIndex(idx, rate) == idx + rate

\* One pass of the sampling loop whose read succeeds.
ReadFrame ==
    /\ va_pc = "sampling"
    /\ frame_idx < MaxSamples * sample_rate
    /\ \E score \in ScoreSet :
        LET emits == prev_frame /\ score > MotionThreshold
            next_idx == NextIndex(frame_idx, sample_rate)
        IN  /\ sample_scores' = Append(sample_scores,
                                       IF prev_frame THEN score ELSE NoScore)
            /\ IF emits /\ fps = 0
               THEN \* frame_idx / self.fps
                    /\ va_pc' = "raised"
                    /\ va_error' = "ZeroDivisionError"
                    /\ motion_seen' = TRUE
                    /\ UNCHANGED <<events, prev_frame, frame_idx>>
               ELSE /\ events' = IF emits
                                 THEN Append(events, MotionEvent(frame_idx, fps, score))
                                 ELSE events
                    /\ motion_seen' = (motion_seen \/ emits)
                    /\ prev_frame' = TRUE
                    /\ frame_idx' = next_idx
                    /\ IF next_idx % (sample_rate * 10) = 0 /\ video_frame_count = 0
                       THEN \* progress = (frame_idx / self.frame_count) * 100
                            /\ va_pc' = "raised"
                            /\ va_error' = "ZeroDivisionError"
                       ELSE UNCHANGED <<va_pc, va_error>>
    /\ UNCHANGED <<fps, video_frame_count, sample_rate, motion_events,
                   activity_periods, duration, video_info, info_error,
                   frames_unread, cmp_vars, tracker_vars, preview_vars>>

\* The read fails: the stream has ended, or this frame cannot be decoded
\* though later ones can (`if not ret` does not tell the two apart).  The
\* loop breaks and the events are stored.
EndOfStream ==
    /\ va_pc = "sampling"
    /\ motion_events' = events
    /\ va_pc' = "detected"
    /\ \E later \in BOOLEAN : frames_unread' = later
    /\ UNCHANGED <<fps, video_frame_count, sample_rate, frame_idx, prev_frame,
                   events, activity_periods, va_error, duration, video_info,
                   info_error, motion_seen, sample_scores, cmp_vars,
                   tracker_vars, preview_vars>>

NewPeriod(event) ==
    [start_time |-> event.timestamp,
     end_time |-> event.timestamp,
     duration |-> 0,
     events |-> <<event>>]

\* event['timestamp'] - current_period['end_time'] < 5
WithinGapInclusive(event, period) ==
    event.timestamp - period.end_time <= Seconds(GapSeconds)
WithinGap(event, period) ==
    event.timestamp - period.end_time < Seconds(GapSeconds)

\* current_period['duration'] > 2
IsLongEnoughAlways(period) == TRUE
IsLongEnough(period) == period.duration > Seconds(MinPeriodSeconds)

\* The loop over self.motion_events; current is <<>> for None.
RECURSIVE PeriodLoop(_, _, _, _)
PeriodLoop(evs, i, periods, current) ==
    IF i > Len(evs) THEN [periods |-> periods, current |-> current]
    ELSE LET event == evs[i] IN
         IF current = <<>>
         THEN PeriodLoop(evs, i + 1, periods, <<NewPeriod(event)>>)
         ELSE IF WithinGap(event, current[1])
         THEN PeriodLoop(evs, i + 1, periods,
                  <<[current[1] EXCEPT !.end_time = event.timestamp,
                                       !.events = Append(@, event)]>>)
         ELSE LET closed == [current[1] EXCEPT
                                !.duration = current[1].end_time - current[1].start_time]
              IN  PeriodLoop(evs, i + 1,
                      IF IsLongEnough(closed) THEN Append(periods, closed) ELSE periods,
                      <<NewPeriod(event)>>)

\* identify_activity_periods' return value for self.motion_events = evs.
PeriodsOf(evs) ==
    IF evs = <<>> THEN <<>>
    ELSE LET r == PeriodLoop(evs, 1, <<>>, <<>>) IN
         \* "Add last period": the duration field of the period still open
         \* is the one it was created with.
         IF r.current # <<>> /\ IsLongEnough(r.current[1])
         THEN Append(r.periods, r.current[1])
         ELSE r.periods

IdentifyActivityPeriods ==
    /\ va_pc = "detected"
    /\ activity_periods' = PeriodsOf(motion_events)
    /\ va_pc' = "identified"
    /\ UNCHANGED <<fps, video_frame_count, sample_rate, frame_idx, prev_frame,
                   events, motion_events, va_error, duration, video_info,
                   info_error, motion_seen, frames_unread, sample_scores,
                   cmp_vars, tracker_vars, preview_vars>>

\* VideoProcessor.get_video_info(video_path), on the same file.  It opens
\* its own capture; it is called here before the sampling starts.
GetVideoInfo ==
    /\ va_pc = "sampling"
    /\ frame_idx = 0
    /\ ~prev_frame
    /\ video_info = <<>>
    /\ info_error = "none"
    /\ LET d == TrueDiv(video_frame_count * 1000, fps) IN
       IF Raised(d)
       THEN info_error' = "ZeroDivisionError" /\ UNCHANGED video_info
       ELSE /\ video_info' = <<[fps |-> fps, frame_count |-> video_frame_count,
                                duration |-> d]>>
            /\ UNCHANGED info_error
    /\ UNCHANGED <<fps, video_frame_count, sample_rate, frame_idx, prev_frame,
                   events, motion_events, activity_periods, va_pc, va_error,
                   duration, motion_seen, frames_unread, sample_scores,
                   cmp_vars, tracker_vars, preview_vars>>

VideoIdle ==
    /\ fps = 0 /\ video_frame_count = 0 /\ sample_rate = 0 /\ frame_idx = 0
    /\ prev_frame = FALSE /\ events = <<>> /\ motion_events = <<>>
    /\ activity_periods = <<>> /\ va_pc = "idle" /\ va_error = "none"
    /\ duration = RatZero /\ video_info = <<>> /\ info_error = "none"
    /\ motion_seen = FALSE /\ frames_unread = FALSE
    /\ sample_scores = <<>>

CompareIdle ==
    /\ assembly_steps = <<>> /\ video_periods = <<>> /\ estimated_steps = <<>>
    /\ coverage = <<>> /\ deltas = <<>> /\ cmp_error = "none"

TrackerIdle ==
    /\ user_config = <<>> /\ config = <<>>
    /\ tracked_objects = <<>> /\ kalman_filters = <<>>
    /\ next_object_id = 0 /\ frame_count = 0
    /\ created_ids = <<>> /\ removed = {} /\ match_log = <<>>
    /\ last_frame = NoFrame

PreviewIdle ==
    /\ cap = 0 /\ current_frame = 0 /\ total_frames = 0
    /\ is_playing = FALSE /\ tracking_enabled = FALSE
    /\ object_tracker = 0 /\ play_pending = 0 /\ frames_fed = <<>>

InitVideo ==
    /\ fps \in FpsSet
    /\ video_frame_count \in FrameCountSet
    /\ sample_rate \in SampleRateSet
    /\ frame_idx = 0
    /\ prev_frame = FALSE
    /\ events = <<>>
    /\ motion_events = <<>>
    /\ activity_periods = <<>>
    /\ va_pc = "sampling"
    /\ va_error = "none"
    /\ duration = Duration(video_frame_count, fps)
    /\ video_info = <<>>
    /\ info_error = "none"
    /\ motion_seen = FALSE
    /\ frames_unread = FALSE
    /\ sample_scores = <<>>
    /\ CompareIdle
    /\ TrackerIdle
    /\ PreviewIdle

NextVideo ==
    ReadFrame \/ EndOfStream \/ IdentifyActivityPeriods \/ GetVideoInfo

SpecVideo == InitVideo /\ [][NextVideo]_vars

\* detect_motion_events alone, run to its end: the loop takes its next
\* pass as long as it has one to take.  A stream holds at most
\* MaxSamples * sample_rate frames (ReadFrame), and a read fails at its end
\* at the latest.
NextSampling == ReadFrame \/ EndOfStream

SpecSampling == InitVideo /\ [][NextSampling]_vars /\ WF_vars(NextSampling)

\* --------------------------------------------- InstructionVideoComparator
\* Durations, in seconds, of the activity periods handed to the comparator:
\* below, at and above the two timing limits.
DurationSet == {3, 10, 300, 400}

TooQuickSeconds == 10
TooLongSeconds == 300

\* extract_assembly_steps numbers the steps 1, 2, ... in order.
StepsOfLength(n) ==
    [i \in 1..n |-> [step_number |-> i, title |-> "Mount"]]

\* Consecutive periods with the durations ds, GapSeconds apart.
RECURSIVE PeriodsWithDurations(_, _)
PeriodsWithDurations(ds, start) ==
    IF ds = <<>> THEN <<>>
    ELSE <<[start_time |-> start,
            end_time |-> start + Seconds(Head(ds)),
            duration |-> Seconds(Head(ds))]>>
         \o PeriodsWithDurations(Tail(ds),
                start + Seconds(Head(ds)) + Seconds(GapSeconds))

SeqsUpTo(S, n) == UNION {[1..k -> S] : k \in 0..n}

\* step = assembly_steps[i], for enumerate's i counted from 1
StepForFirst(steps, i) == steps[1]
StepFor(steps, i) == steps[i]

\* estimate_step_timing: the i-th period with the i-th step, while both exist.
RECURSIVE StepTimingLoop(_, _, _, _)
StepTimingLoop(periods, steps, i, acc) ==
    IF i > Len(periods) THEN acc
    ELSE StepTimingLoop(periods, steps, i + 1,
             IF i - 1 < Len(steps)
             THEN Append(acc, [instruction_step |-> StepFor(steps, i).step_number,
                               instruction_title |-> StepFor(steps, i).title,
                               video_start |-> periods[i].start_time,
                               video_end |-> periods[i].end_time,
                               duration |-> periods[i].duration,
                               confidence |-> "low"])
             ELSE acc)

estimate_step_timing(steps, periods) == StepTimingLoop(periods, steps, 1, <<>>)

Max(a, b) == IF a >= b THEN a ELSE b

\* 'estimated_coverage' of analyze_coverage.
EstimatedCoverageUncapped(S, A) == IF S # 0 THEN TrueDiv(A, S) ELSE RatZero
EstimatedCoverage(S, A) ==
    IF S # 0 THEN RatMin(TrueDiv(A, S), RatOne) ELSE RatZero

\* 'missing_steps' of analyze_coverage.
MissingSteps(S, A) == Max(0, S - A)

analyze_coverage(steps, periods) ==
    [total_instruction_steps |-> Len(steps),
     total_activity_periods |-> Len(periods),
     estimated_coverage |-> EstimatedCoverage(Len(steps), Len(periods)),
     missing_steps |-> MissingSteps(Len(steps), Len(periods))]

\* The timing branch of identify_deltas for one estimated step: the deltas
\* it appends.
TimingDeltaLoose(step) ==
    IF step.duration <= Seconds(TooQuickSeconds)
    THEN <<[step |-> step.instruction_step,
            issue |-> "Step completed too quickly",
            expected_min |-> Seconds(TooQuickSeconds),
            actual |-> step.duration]>>
    ELSE IF step.duration >= Seconds(TooLongSeconds)
    THEN <<[step |-> step.instruction_step,
            issue |-> "Step took too long",
            expected_max |-> Seconds(TooLongSeconds),
            actual |-> step.duration]>>
    ELSE <<>>
TimingDelta(step) ==
    IF step.duration < Seconds(TooQuickSeconds)
    THEN <<[step |-> step.instruction_step,
            issue |-> "Step completed too quickly",
            expected_min |-> Seconds(TooQuickSeconds),
            actual |-> step.duration]>>
    ELSE IF step.duration > Seconds(TooLongSeconds)
    THEN <<[step |-> step.instruction_step,
            issue |-> "Step took too long",
            expected_max |-> Seconds(TooLongSeconds),
            actual |-> step.duration]>>
    ELSE <<>>

RECURSIVE TimingDeltas(_, _)
TimingDeltas(est, i) ==
    IF i > Len(est) THEN <<>>
    ELSE TimingDelta(est[i]) \o TimingDeltas(est, i + 1)

\* The coverage branch of identify_deltas.
CoverageDeltasAlways(cov) ==
    <<[issue |-> "Incomplete coverage",
       missing_steps |-> cov.missing_steps,
       coverage_percentage |-> RatTimes(cov.estimated_coverage, 100)]>>
CoverageDeltas(cov) ==
    IF cov.missing_steps > 0
    THEN <<[issue |-> "Incomplete coverage",
            missing_steps |-> cov.missing_steps,
            coverage_percentage |-> RatTimes(cov.estimated_coverage, 100)]>>
    ELSE <<>>

identify_deltas(steps, periods) ==
    [timing_deltas |-> TimingDeltas(estimate_step_timing(steps, periods), 1),
     coverage_deltas |-> CoverageDeltas(analyze_coverage(steps, periods)),
     sequence_deltas |-> <<>>]

\* A call of comparator.estimate_step_timing().
EstimateStepTiming ==
    /\ estimated_steps = <<>>
    /\ cmp_error = "none"
    /\ estimated_steps' = <<estimate_step_timing(assembly_steps, video_periods)>>
    /\ UNCHANGED <<assembly_steps, video_periods, coverage, deltas, cmp_error,
                   video_vars, tracker_vars, preview_vars>>

\* A call of comparator.analyze_coverage().
AnalyzeCoverage ==
    /\ coverage = <<>>
    /\ cmp_error = "none"
    /\ LET cov == analyze_coverage(assembly_steps, video_periods) IN
       IF Raised(cov.estimated_coverage)
       THEN cmp_error' = "ZeroDivisionError" /\ UNCHANGED coverage
       ELSE coverage' = <<cov>> /\ UNCHANGED cmp_error
    /\ UNCHANGED <<assembly_steps, video_periods, estimated_steps, deltas,
                   video_vars, tracker_vars, preview_vars>>

\* A call of comparator.identify_deltas().
IdentifyDeltas ==
    /\ deltas = <<>>
    /\ cmp_error = "none"
    /\ IF Raised(analyze_coverage(assembly_steps, video_periods).estimated_coverage)
       THEN cmp_error' = "ZeroDivisionError" /\ UNCHANGED deltas
       ELSE deltas' = <<identify_deltas(assembly_steps, video_periods)>>
            /\ UNCHANGED cmp_error
    /\ UNCHANGED <<assembly_steps, video_periods, estimated_steps, coverage,
                   video_vars, tracker_vars, preview_vars>>

InitCompare ==
    /\ \E n \in 0..MaxSteps : assembly_steps = StepsOfLength(n)
    /\ \E ds \in SeqsUpTo(DurationSet, MaxPeriods) :
           video_periods = PeriodsWithDurations(ds, 0)
    /\ estimated_steps = <<>>
    /\ coverage = <<>>
    /\ deltas = <<>>
    /\ cmp_error = "none"
    /\ VideoIdle
    /\ TrackerIdle
    /\ PreviewIdle

NextCompare == EstimateStepTiming \/ AnalyzeCoverage \/ IdentifyDeltas

SpecCompare == InitCompare /\ [][NextCompare]_vars

\* ------------------------------------------- analyze_instruction_and_video
\* The whole analysis of one recording against one instruction file:
\* detect_motion_events, identify_activity_periods, then the comparator's
\* report on the periods found.

\* comparator.generate_comparison_report(): analyze_coverage,
\* estimate_step_timing and identify_deltas on the periods of the video.
GenerateComparisonReport ==
    /\ va_pc = "identified"
    /\ va_pc' = "compared"
    /\ video_periods' = activity_periods
    /\ LET cov == analyze_coverage(assembly_steps, activity_periods) IN
       IF Raised(cov.estimated_coverage)
       THEN /\ cmp_error' = "ZeroDivisionError"
            /\ UNCHANGED <<coverage, estimated_steps, deltas>>
       ELSE /\ coverage' = <<cov>>
            /\ estimated_steps' =
                   <<estimate_step_timing(assembly_steps, activity_periods)>>
            /\ deltas' = <<identify_deltas(assembly_steps, activity_periods)>>
            /\ UNCHANGED cmp_error
    /\ UNCHANGED <<fps, video_frame_count, sample_rate, frame_idx, prev_frame,
                   events, motion_events, activity_periods, va_error, duration,
                   video_info, info_error, motion_seen, frames_unread,
                   sample_scores, assembly_steps, tracker_vars, preview_vars>>

InitPipeline ==
    /\ fps \in FpsSet
    /\ video_frame_count \in FrameCountSet
    /\ sample_rate \in SampleRateSet
    /\ frame_idx = 0
    /\ prev_frame = FALSE
    /\ events = <<>>
    /\ motion_events = <<>>
    /\ activity_periods = <<>>
    /\ va_pc = "sampling"
    /\ va_error = "none"
    /\ duration = Duration(video_frame_count, fps)
    /\ video_info = <<>>
    /\ info_error = "none"
    /\ motion_seen = FALSE
    /\ frames_unread = FALSE
    /\ sample_scores = <<>>
    /\ \E n \in {0, 1, MaxSteps} : assembly_steps = StepsOfLength(n)
    /\ video_periods = <<>>
    /\ estimated_steps = <<>>
    /\ coverage = <<>>
    /\ deltas = <<>>
    /\ cmp_error = "none"
    /\ TrackerIdle
    /\ PreviewIdle

NextPipeline ==
    ReadFrame \/ EndOfStream \/ IdentifyActivityPeriods
        \/ GenerateComparisonReport

SpecPipeline == InitPipeline /\ [][NextPipeline]_vars

\* ------------------------------------------------------------ ObjectTracker
\* Frames fed to one tracker, at most.
MaxFrames == 5
\* The dut_persistence_frames a user configuration file sets.
UserPersistenceFrames == 2

UNKNOWN == "Unknown"
DUT == "DUT"
LEFT_HAND == "Left Hand"
RIGHT_HAND == "Right Hand"
CONVEYOR == "Conveyor Belt"
FIXTURE == "Fixture"
ObjectType == {DUT, LEFT_HAND, RIGHT_HAND, CONVEYOR, FIXTURE, UNKNOWN}

\* frame.shape[:2] of the frames of the stream.
FrameHeight == 480
FrameWidth == 640

\* TrackedObject.motion_history: deque(maxlen=30).
HistoryMaxLen == 30

ConveyorMinArea == 5000
FixtureMinArea == 10000
DutMinArea == 1000
DutMaxArea == 10000
RecentFrames == 5
MinHistory == 5

\* default_config of _load_config; ratios as num/den.
DefaultConfig ==
    [min_object_area |-> 500,
     max_object_area |-> 50000,
     hand_detection_threshold |-> [num |-> 6, den |-> 10],
     dut_persistence_frames |-> 10,
     max_distance_threshold |-> 100,
     conveyor_y_position_ratio |-> [num |-> 7, den |-> 10],
     fixture_motion_threshold |-> 5,
     dut_color_consistency_threshold |-> [num |-> 7, den |-> 10]]

\* No configuration file (config_path is None or does not exist), and a
\* file that sets dut_persistence_frames and switches the lower area bound
\* off with a negative min_object_area.
NoConfigFile == <<>>
UserConfigFile ==
    [dut_persistence_frames |-> UserPersistenceFrames, min_object_area |-> -1]

\* _load_config: default_config.update(user_config)
LoadConfig(user) ==
    [k \in DOMAIN DefaultConfig \cup DOMAIN user |->
        IF k \in DOMAIN user THEN user[k] ELSE DefaultConfig[k]]

\* ---- ObjectTracker(config_path) on configuration files
\* The keys a configuration file sets here and the values it gives them: a
\* usable one, zero, a negative one.
UserKeys == {"min_object_area", "dut_persistence_frames", "max_distance_threshold"}
UserValues == {50, 0, -1}
UserConfigSet == UNION {[ks -> UserValues] : ks \in SUBSET UserKeys}

\* self.config = self._load_config(config_path)
LoadConfigFile ==
    /\ DOMAIN config = {}
    /\ config' = LoadConfig(user_config)
    /\ UNCHANGED <<user_config, tracked_objects, kalman_filters, next_object_id,
                   frame_count, created_ids, removed, match_log, last_frame,
                   video_vars, cmp_vars, preview_vars>>

InitConfig ==
    /\ user_config \in UserConfigSet
    /\ config = <<>>
    /\ tracked_objects = <<>>
    /\ kalman_filters = <<>>
    /\ next_object_id = 0
    /\ frame_count = 0
    /\ created_ids = <<>>
    /\ removed = {}
    /\ match_log = <<>>
    /\ last_frame = NoFrame
    /\ VideoIdle
    /\ CompareIdle
    /\ PreviewIdle

NextConfig == LoadConfigFile

SpecConfig == InitConfig /\ [][NextConfig]_vars


\* (x + w//2, y + h//2)
CenterOf(bbox) == <<bbox[1] + bbox[3] \div 2, bbox[2] + bbox[4] \div 2>>

\* The square of np.sqrt((a[0]-b[0])**2 + (a[1]-b[1])**2); distances are
\* compared through their squares.
Dist2(a, b) == (a[1] - b[1]) * (a[1] - b[1]) + (a[2] - b[2]) * (a[2] - b[2])

\* ---- cv2.KalmanFilter(4, 2), constant velocity, in fixed point.
\* The state [x, y, vx, vy] and the error covariance are kept in units of
\* 1/KScale.  Both axes share one 2x2 covariance block (pxx, pxv, pvv): the
\* transition, measurement and noise matrices are the same for x and y
\* and do not couple them.
KScale == 1000
\* processNoiseCov = 0.03 * eye(4)
ProcessNoise == 30
\* measurementNoiseCov: the constructor's identity
MeasurementNoise == 1000

\* a / b rounded to the nearest unit
RoundDiv(a, b) == (2 * a + b) \div (2 * b)

\* _init_kalman_filter: statePre = statePost = [cx, cy, 0, 0], errorCov = 0
InitKalmanFilter(center) ==
    [x |-> center[1] * KScale, y |-> center[2] * KScale, vx |-> 0, vy |-> 0,
     pxx |-> 0, pxv |-> 0, pvv |-> 0]

\* kf.predict(): statePost = A statePost, errorCovPost = A P A^T + Q.
\* It advances the filter each time it is called.
KalmanPredict(kf) ==
    [x |-> kf.x + kf.vx, y |-> kf.y + kf.vy, vx |-> kf.vx, vy |-> kf.vy,
     pxx |-> kf.pxx + 2 * kf.pxv + kf.pvv + ProcessNoise,
     pxv |-> kf.pxv + kf.pvv,
     pvv |-> kf.pvv + ProcessNoise]

\* int(v) of a state component: truncation towards zero
TruncToInt(v) == IF v >= 0 THEN v \div KScale ELSE -((-v) \div KScale)

\* (int(prediction[0]), int(prediction[1]))
PredictedPosition(kf) == <<TruncToInt(kf.x), TruncToInt(kf.y)>>

\* kf.correct(measurement): gain K = P H^T (H P H^T + R)^-1,
\* statePost += K (z - H statePre), errorCovPost = P - K H P.
KalmanCorrect(kf, center) ==
    LET s == kf.pxx + MeasurementNoise
        kx == RoundDiv(kf.pxx * KScale, s)
        kv == RoundDiv(kf.pxv * KScale, s)
        rx == center[1] * KScale - kf.x
        ry == center[2] * KScale - kf.y
    IN  [x |-> kf.x + RoundDiv(kx * rx, KScale),
         y |-> kf.y + RoundDiv(kx * ry, KScale),
         vx |-> kf.vx + RoundDiv(kv * rx, KScale),
         vy |-> kf.vy + RoundDiv(kv * ry, KScale),
         pxx |-> kf.pxx - RoundDiv(kx * kf.pxx, KScale),
         pxv |-> kf.pxv - RoundDiv(kx * kf.pxv, KScale),
         pvv |-> kf.pvv - RoundDiv(kv * kf.pxv, KScale)]

\* ---- maps keyed by object id (Python dicts; ids are inserted in
\* increasing order, so iteration is by increasing id)
MapPut(f, k, v) == [i \in DOMAIN f \cup {k} |-> IF i = k THEN v ELSE f[i]]
MapDrop(f, ks) == [i \in DOMAIN f \ ks |-> f[i]]

RECURSIVE IdsInOrder(_)
IdsInOrder(S) ==
    IF S = {} THEN <<>>
    ELSE LET m == CHOOSE a \in S : \A b \in S : a <= b
         IN  <<m>> \o IdsInOrder(S \ {m})

\* ---- _detect_moving_objects: the contours kept, with their centers.
\* A contour is [bbox, area] (cv2.boundingRect, cv2.contourArea).
RECURSIVE DetectMovingObjects(_, _)
DetectMovingObjects(contours, cfg) ==
    IF contours = <<>> THEN <<>>
    ELSE LET c == Head(contours)
             rest == DetectMovingObjects(Tail(contours), cfg)
         IN  IF cfg.min_object_area < c.area /\ c.area < cfg.max_object_area
             THEN <<[bbox |-> c.bbox, area |-> c.area, center |-> CenterOf(c.bbox)]>>
                  \o rest
             ELSE rest

\* ---- _calculate_overlap_with_regions: the largest fraction of bbox
\* covered by one of the regions, as num/den.
Min2(a, b) == IF a <= b THEN a ELSE b
Max2(a, b) == IF a >= b THEN a ELSE b

OverlapWith(bbox, r) ==
    LET x_left == Max2(bbox[1], r[1])
        y_top == Max2(bbox[2], r[2])
        x_right == Min2(bbox[1] + bbox[3], r[1] + r[3])
        y_bottom == Min2(bbox[2] + bbox[4], r[2] + r[4])
        bbox_area == bbox[3] * bbox[4]
    IN  IF x_right > x_left /\ y_bottom > y_top /\ bbox_area > 0
        THEN [num |-> (x_right - x_left) * (y_bottom - y_top), den |-> bbox_area]
        ELSE RatZero

RECURSIVE MaxOverlap(_, _, _)
MaxOverlap(bbox, regions, best) ==
    IF regions = <<>> THEN best
    ELSE LET o == OverlapWith(bbox, Head(regions))
         IN  MaxOverlap(bbox, Tail(regions), IF RatLeq(o, best) THEN best ELSE o)

CalculateOverlapWithRegions(bbox, regions) == MaxOverlap(bbox, regions, RatZero)

\* ---- _is_stationary_object
\* The closest entity seen in the last RecentFrames frames and nearer than
\* max_distance_threshold (the first such in id order on a tie), or -1.
RECURSIVE StationaryMatch(_, _, _, _, _, _, _)
StationaryMatch(ids, objs, center, fc, cfg, best_d2, best_id) ==
    IF ids = <<>> THEN best_id
    ELSE LET t == objs[Head(ids)]
             d2 == Dist2(center, t.center)
             closer == /\ t.last_seen_frame >= fc - RecentFrames
                       /\ (best_id = -1 \/ d2 < best_d2)
                       /\ d2 < cfg.max_distance_threshold * cfg.max_distance_threshold
         IN  StationaryMatch(Tail(ids), objs, center, fc, cfg,
                 IF closer THEN d2 ELSE best_d2,
                 IF closer THEN Head(ids) ELSE best_id)

\* max over consecutive history points of the squared step
MaxStep2(h) ==
    LET steps == {Dist2(h[i], h[i - 1]) : i \in 2..Len(h)}
    IN  IF steps = {} THEN 0 ELSE CHOOSE m \in steps : \A n \in steps : n <= m

IsStationaryObject(obj, objs, fc, cfg) ==
    LET id == StationaryMatch(IdsInOrder(DOMAIN objs), objs, obj.center, fc, cfg, 0, -1)
    IN  /\ id # -1
        /\ Len(objs[id].motion_history) > MinHistory
        /\ MaxStep2(objs[id].motion_history)
               < cfg.fixture_motion_threshold * cfg.fixture_motion_threshold

\* ---- _classify_objects: one region's type and confidence
\* hand_overlap > self.config['hand_detection_threshold']
IsHandAtThreshold(hand_overlap, thr) ==
    hand_overlap.num * thr.den >= thr.num * hand_overlap.den
IsHand(hand_overlap, thr) ==
    hand_overlap.num * thr.den > thr.num * hand_overlap.den

ClassifyObject(obj, hand_regions, height, width, objs, fc, cfg) ==
    LET hand_overlap == CalculateOverlapWithRegions(obj.bbox, hand_regions)
        thr == cfg.hand_detection_threshold
        ratio == cfg.conveyor_y_position_ratio
    IN  IF IsHand(hand_overlap, thr)
        THEN [type |-> IF obj.center[1] < width \div 2 THEN LEFT_HAND ELSE RIGHT_HAND,
              confidence |-> hand_overlap]
        ELSE IF obj.center[2] * ratio.den > height * ratio.num
        THEN IF obj.area > ConveyorMinArea
             THEN [type |-> CONVEYOR, confidence |-> [num |-> 7, den |-> 10]]
             ELSE [type |-> UNKNOWN, confidence |-> [num |-> 5, den |-> 10]]
        ELSE IF obj.area > FixtureMinArea
        THEN IF IsStationaryObject(obj, objs, fc, cfg)
             THEN [type |-> FIXTURE, confidence |-> [num |-> 6, den |-> 10]]
             ELSE [type |-> UNKNOWN, confidence |-> [num |-> 5, den |-> 10]]
        ELSE IF DutMinArea < obj.area /\ obj.area < DutMaxArea
             THEN [type |-> DUT, confidence |-> [num |-> 7, den |-> 10]]
             ELSE [type |-> UNKNOWN, confidence |-> [num |-> 5, den |-> 10]]

ClassifyObjects(moving, hand_regions, height, width, objs, fc, cfg) ==
    [i \in 1..Len(moving) |->
        LET c == ClassifyObject(moving[i], hand_regions, height, width, objs, fc, cfg)
        IN  [bbox |-> moving[i].bbox, area |-> moving[i].area,
             center |-> moving[i].center,
             type |-> c.type, confidence |-> c.confidence]]

\* ---- TrackedObject.update_position
\* motion_history.append(center) on deque(maxlen=30)
AppendUnbounded(h, c) == Append(h, c)
AppendBounded(h, c) ==
    IF Len(h) >= HistoryMaxLen THEN Append(Tail(h), c) ELSE Append(h, c)

\* velocity computed without the test frames_diff > 0
UpdatePositionUnguarded(t, new_bbox, frame_num) ==
    LET c == CenterOf(new_bbox)
        frames_diff == frame_num - t.last_seen_frame
    IN  [t EXCEPT
            !.bbox = new_bbox,
            !.center = c,
            !.area = new_bbox[3] * new_bbox[4],
            !.velocity = IF t.last_seen_frame > 0
                         THEN [dx |-> c[1] - t.center[1],
                               dy |-> c[2] - t.center[2],
                               frames |-> frames_diff]
                         ELSE @,
            !.last_seen_frame = frame_num,
            !.motion_history = AppendBounded(@, c)]
UpdatePosition(t, new_bbox, frame_num) ==
    LET c == CenterOf(new_bbox)
        frames_diff == frame_num - t.last_seen_frame
    IN  [t EXCEPT
            !.bbox = new_bbox,
            !.center = c,
            !.area = new_bbox[3] * new_bbox[4],
            !.velocity = IF t.last_seen_frame > 0 /\ frames_diff > 0
                         THEN [dx |-> c[1] - t.center[1],
                               dy |-> c[2] - t.center[2],
                               frames |-> frames_diff]
                         ELSE @,
            !.last_seen_frame = frame_num,
            !.motion_history = AppendBounded(@, c)]

\* ---- _update_tracking
\* tracked.object_type == obj_type or tracked.object_type == ObjectType.UNKNOWN
IsEligibleAnyRole(tracked_type, obj_type) == TRUE
IsEligible(tracked_type, obj_type) ==
    tracked_type = obj_type \/ tracked_type = UNKNOWN

\* if tracked.object_type == ObjectType.UNKNOWN: tracked.object_type = obj_type
PromoteRole(tracked_type, obj_type) ==
    IF tracked_type = UNKNOWN THEN obj_type ELSE tracked_type

\* The search for the closest eligible entity.  acc holds the filters (each
\* candidate's filter is advanced by its prediction), the best squared
\* distance and id so far (matched_id = -1: None, min_distance infinite),
\* and the candidates seen.
RECURSIVE SearchLoop(_, _, _, _, _)
SearchLoop(ids, objs, obj, cfg, acc) ==
    IF ids = <<>> THEN acc
    ELSE LET id == Head(ids)
             t == objs[id]
         IN  IF ~IsEligible(t.object_type, obj.type)
             THEN SearchLoop(Tail(ids), objs, obj, cfg,
                      [acc EXCEPT !.cands = Append(@,
                          [id |-> id, object_type |-> t.object_type,
                           center |-> t.center, pos |-> <<>>])])
             ELSE LET has_filter == id \in DOMAIN acc.kfs
                      kf == IF has_filter THEN KalmanPredict(acc.kfs[id])
                            ELSE InitKalmanFilter(t.center)
                      pos == IF has_filter THEN PredictedPosition(kf) ELSE t.center
                      d2 == Dist2(obj.center, pos)
                      better == /\ (acc.matched_id = -1 \/ d2 < acc.min_d2)
                                /\ d2 < cfg.max_distance_threshold
                                        * cfg.max_distance_threshold
                  IN  SearchLoop(Tail(ids), objs, obj, cfg,
                          [kfs |-> IF has_filter THEN [acc.kfs EXCEPT ![id] = kf]
                                   ELSE acc.kfs,
                           min_d2 |-> IF better THEN d2 ELSE acc.min_d2,
                           matched_id |-> IF better THEN id ELSE acc.matched_id,
                           cands |-> Append(acc.cands,
                               [id |-> id, object_type |-> t.object_type,
                                center |-> t.center, pos |-> pos])])

\* The new TrackedObject (color_histogram, which nothing reads, is left out).
NewTrackedObjectNoArea(id, obj, fc) ==
    [id |-> id,
     object_type |-> obj.type,
     bbox |-> obj.bbox,
     center |-> obj.center,
     area |-> 0,
     confidence |-> obj.confidence,
     first_seen_frame |-> fc,
     last_seen_frame |-> fc,
     velocity |-> [dx |-> 0, dy |-> 0, frames |-> 1],
     motion_history |-> <<>>]
\* last_seen_frame left at the dataclass default
NewTrackedObjectDefaultLastSeen(id, obj, fc) ==
    [id |-> id,
     object_type |-> obj.type,
     bbox |-> obj.bbox,
     center |-> obj.center,
     area |-> obj.area,
     confidence |-> obj.confidence,
     first_seen_frame |-> fc,
     last_seen_frame |-> 0,
     velocity |-> [dx |-> 0, dy |-> 0, frames |-> 1],
     motion_history |-> <<>>]
NewTrackedObject(id, obj, fc) ==
    [id |-> id,
     object_type |-> obj.type,
     bbox |-> obj.bbox,
     center |-> obj.center,
     area |-> obj.area,
     confidence |-> obj.confidence,
     first_seen_frame |-> fc,
     last_seen_frame |-> fc,
     velocity |-> [dx |-> 0, dy |-> 0, frames |-> 1],
     motion_history |-> <<>>]

\* The update of a matched entity.
\* (a matched entity entered anew, as first seen in this frame)
UpdateMatchedAsNew(t, obj, fc) ==
    [UpdatePosition(t, obj.bbox, fc) EXCEPT
        !.confidence = obj.confidence,
        !.object_type = PromoteRole(t.object_type, obj.type),
        !.first_seen_frame = fc]
UpdateMatched(t, obj, fc) ==
    [UpdatePosition(t, obj.bbox, fc) EXCEPT
        !.confidence = obj.confidence,
        !.object_type = PromoteRole(t.object_type, obj.type)]

\* self.next_object_id += 1
NextIdUnchanged(next_id, objs) == next_id
NextId(next_id, objs) == next_id + 1

\* A tracker that matches the nearest entity whatever its role and takes
\* over the role of the region.
RegionStepAnyRole(st, obj, fc, cfg) ==
    LET near == {id \in DOMAIN st.objs :
                    Dist2(obj.center, st.objs[id].center)
                        < cfg.max_distance_threshold * cfg.max_distance_threshold}
    IN  IF near # {}
        THEN LET m == CHOOSE id \in near : \A j \in near :
                          Dist2(obj.center, st.objs[id].center)
                              <= Dist2(obj.center, st.objs[j].center)
             IN  [st EXCEPT
                     !.objs = [@ EXCEPT ![m] =
                                  [UpdatePosition(@, obj.bbox, fc) EXCEPT
                                      !.confidence = obj.confidence,
                                      !.object_type = obj.type]],
                     !.matched = @ \cup {m}]
        ELSE [st EXCEPT
                 !.objs = MapPut(@, st.next_id, NewTrackedObject(st.next_id, obj, fc)),
                 !.kfs = MapPut(@, st.next_id, InitKalmanFilter(obj.center)),
                 !.next_id = @ + 1,
                 !.created = Append(@, st.next_id)]
\* One pass of the loop over classified_objects.  st holds tracked_objects,
\* kalman_filters, next_object_id, matched_objects and the histories.
RegionStep(st, obj, fc, cfg) ==
    LET found == SearchLoop(IdsInOrder(DOMAIN st.objs), st.objs, obj, cfg,
                     [kfs |-> st.kfs, min_d2 |-> 0, matched_id |-> -1,
                      cands |-> <<>>])
        m == found.matched_id
        entry == [center |-> obj.center, type |-> obj.type,
                  bbox |-> obj.bbox, area |-> obj.area,
                  confidence |-> obj.confidence,
                  next_id_before |-> st.next_id, cands |-> found.cands,
                  matched_id |-> m,
                  created_id |-> IF m = -1 THEN st.next_id ELSE -1]
    IN  IF m # -1
        THEN [st EXCEPT
                 !.objs = [@ EXCEPT ![m] = UpdateMatched(@, obj, fc)],
                 !.kfs = IF m \in DOMAIN found.kfs
                         THEN [found.kfs EXCEPT ![m] = KalmanCorrect(@, obj.center)]
                         ELSE found.kfs,
                 !.matched = @ \cup {m},
                 !.log = Append(@, entry)]
        ELSE LET objs2 == MapPut(st.objs, st.next_id,
                              NewTrackedObject(st.next_id, obj, fc))
             IN  [st EXCEPT
                     !.objs = objs2,
                     !.kfs = MapPut(found.kfs, st.next_id, InitKalmanFilter(obj.center)),
                     !.next_id = NextId(st.next_id, objs2),
                     !.created = Append(@, st.next_id),
                     !.log = Append(@, entry)]

RECURSIVE RegionLoop(_, _, _, _)
RegionLoop(st, classified, fc, cfg) ==
    IF classified = <<>> THEN st
    ELSE RegionLoop(RegionStep(st, Head(classified), fc, cfg),
                    Tail(classified), fc, cfg)

\* self.frame_count - tracked.last_seen_frame > dut_persistence_frames
IsStaleEarly(t, fc, cfg) == fc - t.last_seen_frame >= cfg.dut_persistence_frames
IsStale(t, fc, cfg) == fc - t.last_seen_frame > cfg.dut_persistence_frames

\* objects_to_remove
ObjectsToRemove(objs, matched, fc, cfg) ==
    {id \in DOMAIN objs : id \notin matched /\ IsStale(objs[id], fc, cfg)}

\* del self.kalman_filters[obj_id] for the objects removed
KeepFilters(kfs, gone) == kfs
DropFilters(kfs, gone) == MapDrop(kfs, gone \cap DOMAIN kfs)

\* _update_tracking(classified_objects) at frame fc: the state after it.
UpdateTracking(classified, fc, cfg) ==
    LET st == RegionLoop([objs |-> tracked_objects, kfs |-> kalman_filters,
                          next_id |-> next_object_id, matched |-> {},
                          created |-> created_ids, log |-> <<>>],
                         classified, fc, cfg)
        gone == ObjectsToRemove(st.objs, st.matched, fc, cfg)
    IN  [objs |-> MapDrop(st.objs, gone),
         kfs |-> DropFilters(st.kfs, gone),
         next_id |-> st.next_id,
         created |-> st.created,
         log |-> st.log,
         gone |-> {[id |-> id, last_seen_frame |-> st.objs[id].last_seen_frame,
                    at |-> fc] : id \in gone}]

\* ---- the frames fed to the tracker
\* What the two detectors find in one frame: the contours of the foreground
\* mask, in order, and the skin regions.
ContourA == [bbox |-> <<100, 100, 60, 60>>, area |-> 3000]
ContourB == [bbox |-> <<150, 100, 60, 60>>, area |-> 3000]
ContourC == [bbox |-> <<400, 100, 60, 60>>, area |-> 3000]
ContourU == [bbox |-> <<110, 110, 30, 30>>, area |-> 700]
ContourH == [bbox |-> <<90, 90, 80, 80>>, area |-> 5000]
\* The smallest blob cv2.MORPH_OPEN with the 5x5 kernel leaves in the mask.
ContourS == [bbox |-> <<300, 300, 5, 5>>, area |-> 16]

FrameSet ==
    {[contours |-> <<>>, hands |-> <<>>],
     [contours |-> <<ContourA>>, hands |-> <<>>],
     [contours |-> <<ContourB>>, hands |-> <<>>],
     [contours |-> <<ContourC>>, hands |-> <<>>],
     [contours |-> <<ContourU>>, hands |-> <<>>],
     [contours |-> <<ContourA, ContourB>>, hands |-> <<>>],
     [contours |-> <<ContourS>>, hands |-> <<>>],
     [contours |-> <<ContourH>>, hands |-> <<<<90, 90, 80, 80>>>>]}

\* process_frame(frame), for what the detectors find in the frame
ProcessFrameOf(frame) ==
    LET fc == frame_count + 1
        moving == DetectMovingObjects(frame.contours, config)
        classified == ClassifyObjects(moving, frame.hands, FrameHeight,
                          FrameWidth, tracked_objects, fc, config)
    IN  /\ \E r \in {UpdateTracking(classified, fc, config)} :
            /\ frame_count' = fc
            /\ tracked_objects' = r.objs
            /\ kalman_filters' = r.kfs
            /\ next_object_id' = r.next_id
            /\ created_ids' = r.created
            /\ removed' = removed \cup r.gone
            /\ match_log' = r.log
        /\ last_frame' = frame
        /\ UNCHANGED <<user_config, config, video_vars, cmp_vars, preview_vars>>

ProcessFrame ==
    /\ frame_count < MaxFrames
    /\ \E frame \in FrameSet : ProcessFrameOf(frame)

\* ObjectTracker.__init__, without a configuration file or with
\* UserConfigFile
Init ==
    /\ user_config \in {NoConfigFile, UserConfigFile}
    /\ config = LoadConfig(user_config)
    /\ tracked_objects = <<>>
    /\ kalman_filters = <<>>
    /\ next_object_id = 0
    /\ frame_count = 0
    /\ created_ids = <<>>
    /\ removed = {}
    /\ match_log = <<>>
    /\ last_frame = NoFrame
    /\ VideoIdle
    /\ CompareIdle
    /\ PreviewIdle

Next == ProcessFrame

Spec == Init /\ [][Next]_vars

\* ---- the classification of single regions
\* cv2.contourArea of the region: around each area bound of
\* _classify_objects.
AreaSet == {700, 1000, 3000, 5000, 6000, 10000, 12000}
\* Top-left corners of the region's 120x120 bounding box.  Its center lies
\* left or right of the midline, and above, on or below the line
\* height * conveyor_y_position_ratio (y = 336).
CornerXSet == {100, 400}
CornerYSet == {100, 276, 320}

\* The skin regions over the region's box, each as <<offset, width>> of
\* the columns of the box it covers: none; one that covers less than, just
\* and more than hand_detection_threshold of the 120 columns, or all of
\* them; two regions, the larger one first or last.
SkinSet ==
    {<<>>, <<<<0, 66>>>>, <<<<0, 72>>>>, <<<<0, 84>>>>, <<<<0, 120>>>>,
     <<<<0, 66>>, <<36, 84>>>>, <<<<36, 84>>, <<0, 66>>>>}

\* Frames with one region and the skin regions over it.
RegionFrameSet ==
    {[contours |-> <<[bbox |-> <<x, y, 120, 120>>, area |-> a]>>,
      hands |-> [i \in 1..Len(skin) |->
                    <<x + skin[i][1], y, skin[i][2], 120>>]] :
        x \in CornerXSet, y \in CornerYSet, a \in AreaSet, skin \in SkinSet}

\* process_frame on the first frame of a stream
ClassifyFrame ==
    /\ frame_count < 1
    /\ \E frame \in RegionFrameSet : ProcessFrameOf(frame)

NextClassify == ClassifyFrame

SpecClassify == Init /\ [][NextClassify]_vars

\* ---- a large region that stays where it is
\* Frames of the stream, at most.
MaxFixtureFrames == 8

\* The contour of a large region whose bounding box has its left edge at x.
LargeContour(x) == [bbox |-> <<x, 100, 120, 120>>, area |-> 12000]

\* What the detectors find in a frame of the stream: nothing; the region
\* where it was; the region fixture_motion_threshold pixels to the right;
\* two regions with nearly the same bounding box (the two parts of one
\* object behind a thin bar that crosses it).
FixtureFrameSet ==
    {NoFrame,
     [contours |-> <<LargeContour(200)>>, hands |-> <<>>],
     [contours |-> <<LargeContour(205)>>, hands |-> <<>>],
     [contours |-> <<LargeContour(200), LargeContour(202)>>, hands |-> <<>>]}

\* The region where it was, with a hand over it.
HandOverFrame ==
    [contours |-> <<LargeContour(200)>>, hands |-> <<<<200, 100, 120, 120>>>>]

\* process_frame on the next frame of the stream; the hand comes in only
\* once the region has been in view for MinHistory + 2 frames.
TrackLargeRegion ==
    /\ frame_count < MaxFixtureFrames
    /\ \E frame \in FixtureFrameSet \cup {HandOverFrame} :
           /\ frame = HandOverFrame => frame_count >= MinHistory + 2
           /\ ProcessFrameOf(frame)

NextFixture == TrackLargeRegion

SpecFixture == Init /\ [][NextFixture]_vars

\* ---- one box tracked over a long session
\* Frames of the session, at most, and the first frames, in each of which
\* the detector may miss the box.
MaxBoxFrames == 34
MaxMissFrames == 5

\* The contour of a 60x60 box that moves by (2, 0) pixels per frame.
BoxContour(n) == [bbox |-> <<100 + 2 * n, 200, 60, 60>>, area |-> 3000]

\* process_frame on the next frame of the session
TrackMovingBox ==
    /\ frame_count < MaxBoxFrames
    /\ \E seen \in BOOLEAN :
           /\ ~seen => frame_count < MaxMissFrames
           /\ ProcessFrameOf(
                  [contours |-> IF seen THEN <<BoxContour(frame_count + 1)>>
                                ELSE <<>>,
                   hands |-> <<>>])

NextHistory == TrackMovingBox

SpecHistory == Init /\ [][NextHistory]_vars

\* ------------------------------------------- TrackedVideoPreviewWidget
\* Frames passed to process_frame, successful loads and scheduled
\* play_loop callbacks, at most.
MaxProcessed == 3
MaxLoads == 2
MaxPending == 2

\* The video files the user opens, the number of frames of each, and a
\* file cv2.VideoCapture cannot open.
VideoSet == {1, 2}
FramesOf(v) == IF v = 1 THEN 3 ELSE 2
BadVideo == 9
\* Positions of the seek bar, in percent.
SeekSet == {0, 50, 100}

\* cap.set(POS_FRAMES, n); ret, frame = cap.read(): ret
ReadOk(c, n) == c \in VideoSet /\ 0 <= n /\ n < FramesOf(c)

Processed(fed) ==
    LET RECURSIVE Sum(_)
        Sum(k) == IF k = 0 THEN 0 ELSE Len(fed[k]) + Sum(k - 1)
    IN  Sum(Len(fed))

\* show_frame(n): what it leaves in frames_fed and current_frame.  The
\* frame goes to the tracker instance trk when tracking is enabled.
ShowFrame(c, n, enabled, trk, fed, cur) ==
    IF c # 0 /\ ReadOk(c, n)
    THEN [fed |-> IF enabled THEN [fed EXCEPT ![trk] = Append(@, <<c, n>>)]
                  ELSE fed,
          current |-> n]
    ELSE [fed |-> fed, current |-> cur]

\* load_video(video_path)
LoadVideo ==
    /\ Processed(frames_fed) < MaxProcessed
    /\ Len(frames_fed) <= MaxLoads
    /\ \E v \in VideoSet \cup {BadVideo} :
           /\ cap' = v
           /\ IF v = BadVideo
              THEN \* not self.cap.isOpened(): return False
                   UNCHANGED <<current_frame, total_frames, object_tracker,
                               frames_fed>>
              ELSE \* show_frame(0), then self.object_tracker = ObjectTracker()
                   LET shown == ShowFrame(v, 0, tracking_enabled, object_tracker,
                                          frames_fed, 0)
                   IN  /\ total_frames' = FramesOf(v)
                       /\ current_frame' = shown.current
                       /\ frames_fed' = Append(shown.fed, <<>>)
                       /\ object_tracker' = Len(frames_fed) + 1
    /\ UNCHANGED <<is_playing, tracking_enabled, play_pending, video_vars,
                   cmp_vars, tracker_vars>>

\* play_loop(): the next frame, or frame 0 after the last one, then
\* parent.after(frame_delay, play_loop).
PlayLoopBody(pending) ==
    IF ~is_playing' \/ cap = 0
    THEN /\ play_pending' = pending
         /\ UNCHANGED <<current_frame, frames_fed>>
    ELSE LET next_frame == IF current_frame + 1 >= total_frames THEN 0
                           ELSE current_frame + 1
             shown == ShowFrame(cap, next_frame, tracking_enabled,
                                object_tracker, frames_fed, current_frame)
         IN  /\ current_frame' = shown.current
             /\ frames_fed' = shown.fed
             /\ play_pending' = pending + 1

\* toggle_play_pause()
TogglePlayPause ==
    /\ cap # 0
    /\ Processed(frames_fed) < MaxProcessed
    /\ play_pending < MaxPending
    /\ is_playing' = ~is_playing
    /\ PlayLoopBody(play_pending)
    /\ UNCHANGED <<cap, total_frames, tracking_enabled, object_tracker,
                   video_vars, cmp_vars, tracker_vars>>

\* A scheduled play_loop callback runs.
PlayLoop ==
    /\ play_pending > 0
    /\ Processed(frames_fed) < MaxProcessed
    /\ UNCHANGED is_playing
    /\ PlayLoopBody(play_pending - 1)
    /\ UNCHANGED <<cap, total_frames, tracking_enabled, object_tracker,
                   video_vars, cmp_vars, tracker_vars>>

\* on_seek(value)
OnSeek ==
    /\ cap # 0 /\ total_frames # 0
    /\ Processed(frames_fed) < MaxProcessed
    /\ \E value \in SeekSet :
           LET target_frame == (value * total_frames) \div 100
               shown == ShowFrame(cap, target_frame, tracking_enabled,
                                  object_tracker, frames_fed, current_frame)
           IN  /\ current_frame' = shown.current
               /\ frames_fed' = shown.fed
    /\ UNCHANGED <<cap, total_frames, is_playing, tracking_enabled,
                   object_tracker, play_pending, video_vars, cmp_vars,
                   tracker_vars>>

\* toggle_tracking(): the current frame is shown again, with or without
\* tracking.
ToggleTracking ==
    /\ Processed(frames_fed) < MaxProcessed
    /\ tracking_enabled' = ~tracking_enabled
    /\ LET shown == ShowFrame(cap, current_frame, ~tracking_enabled,
                              object_tracker, frames_fed, current_frame)
       IN  /\ current_frame' = shown.current
           /\ frames_fed' = shown.fed
    /\ UNCHANGED <<cap, total_frames, is_playing, object_tracker, play_pending,
                   video_vars, cmp_vars, tracker_vars>>

\* TrackedVideoPreviewWidget.__init__
InitPreview ==
    /\ cap = 0
    /\ current_frame = 0
    /\ total_frames = 0
    /\ is_playing = FALSE
    /\ tracking_enabled = FALSE
    /\ object_tracker = 1
    /\ play_pending = 0
    /\ frames_fed = << <<>> >>
    /\ VideoIdle
    /\ CompareIdle
    /\ TrackerIdle

NextPreview ==
    LoadVideo \/ TogglePlayPause \/ PlayLoop \/ OnSeek \/ ToggleTracking

SpecPreview == InitPreview /\ [][NextPreview]_vars

\* ---- C1, C2: the activity periods returned

\* Index of the first event of the last run of evs: the last event that is
\* the first of all or lies GapSeconds or more after the event before it.
LastRunStart(evs) ==
    CHOOSE k \in 1..Len(evs) :
        /\ k = 1 \/ evs[k].timestamp - evs[k - 1].timestamp >= Seconds(GapSeconds)
        /\ \A j \in (k + 1)..Len(evs) :
               evs[j].timestamp - evs[j - 1].timestamp < Seconds(GapSeconds)

\* C1 (as claimed): when the event list ends, the period still being
\* accumulated (the last run of events) is emitted whenever it spans more
\* than MinPeriodSeconds, and a single run spanning more than that yields
\* exactly one activity period.
C1_FinalPeriodEmitted ==
    (va_pc = "identified" /\ motion_events # <<>>) =>
        LET k == LastRunStart(motion_events)
            first == motion_events[k].timestamp
            last == Last(motion_events).timestamp
        IN  last - first > Seconds(MinPeriodSeconds) =>
                /\ activity_periods # <<>>
                /\ Last(activity_periods).start_time = first
                /\ Last(activity_periods).end_time = last
                /\ k = 1 => Len(activity_periods) = 1

\* C2: the returned periods are ordered by start time, each ends before
\* the next one starts, and each lasts at least MinPeriodSeconds (its
\* duration field being end_time - start_time).
C2_PeriodsOrderedDisjointLongEnough ==
    va_pc = "identified" =>
        /\ \A i \in 1..Len(activity_periods) :
               /\ activity_periods[i].duration >= Seconds(MinPeriodSeconds)
               /\ activity_periods[i].duration =
                      activity_periods[i].end_time - activity_periods[i].start_time
        /\ \A i \in 1..(Len(activity_periods) - 1) :
               /\ activity_periods[i].start_time < activity_periods[i + 1].start_time
               /\ activity_periods[i].end_time < activity_periods[i + 1].start_time

\* Two periods were returned.
C2_Witness ==
    va_pc = "identified" /\ Len(activity_periods) >= 2

\* ---- C8, C9, C10: the comparator's coverage and deltas

\* C8: for S > 0 steps and A periods estimated_coverage is min(A/S, 1)
\* (it is at most 1, at most A/S, and equal to one of the two); for S = 0
\* it is 0; and no comparator call raises a division error.
C8_CoverageIsCappedRatio ==
    /\ cmp_error = "none"
    /\ coverage # <<>> =>
           LET S == Len(assembly_steps)
               A == Len(video_periods)
               c == coverage[1].estimated_coverage
           IN  /\ c.den > 0
               /\ S > 0 => /\ c.num <= c.den
                           /\ c.num * S <= A * c.den
                           /\ c.num = c.den \/ c.num * S = A * c.den
               /\ S = 0 => c.num = 0

\* More periods than steps: the ratio was capped.
C8_Witness ==
    /\ coverage # <<>>
    /\ Len(assembly_steps) > 0
    /\ Len(video_periods) > Len(assembly_steps)
    /\ coverage[1].estimated_coverage.num = coverage[1].estimated_coverage.den

\* C9: missing_steps is S - A when A < S and 0 otherwise; identify_deltas
\* holds a coverage delta if and only if A < S, and that delta carries
\* missing_steps = S - A and coverage_percentage = 100 A / S.
C9_MissingStepsAndCoverageDelta ==
    LET S == Len(assembly_steps)
        A == Len(video_periods)
    IN  /\ coverage # <<>> =>
               coverage[1].missing_steps = IF A < S THEN S - A ELSE 0
        /\ deltas # <<>> =>
               LET cd == deltas[1].coverage_deltas IN
               IF A < S
               THEN /\ Len(cd) = 1
                    /\ cd[1].missing_steps = S - A
                    /\ cd[1].coverage_percentage.den > 0
                    /\ cd[1].coverage_percentage.num * S
                           = 100 * A * cd[1].coverage_percentage.den
               ELSE cd = <<>>

\* 5 steps and 2 periods: coverage 40 %, 3 missing steps.
C9_Witness ==
    /\ Len(assembly_steps) = 5
    /\ Len(video_periods) = 2
    /\ deltas # <<>>
    /\ Len(deltas[1].coverage_deltas) = 1
    /\ deltas[1].coverage_deltas[1].missing_steps = 3
    /\ deltas[1].coverage_deltas[1].coverage_percentage.num
           = 40 * deltas[1].coverage_deltas[1].coverage_percentage.den

\* C10: for each mapped step i (i <= min(S, A)) with period duration d,
\* the timing deltas hold a "too quickly" entry for i iff d < 10 s, a "too
\* long" entry iff d > 300 s, each with actual = d, at most one entry per
\* step, and no entry for a step that is not mapped.
C10_TimingDeltas ==
    deltas # <<>> =>
        LET td == deltas[1].timing_deltas
            S == Len(assembly_steps)
            A == Len(video_periods)
            n == IF S < A THEN S ELSE A
            Of(i) == {k \in 1..Len(td) : td[k].step = i}
        IN  /\ \A k \in 1..Len(td) : td[k].step \in 1..n
            /\ \A i \in 1..n :
                   LET d == video_periods[i].duration IN
                   /\ Cardinality(Of(i)) <= 1
                   /\ \A k \in Of(i) : td[k].actual = d
                   /\ (\E k \in Of(i) : td[k].issue = "Step completed too quickly")
                          <=> d < Seconds(TooQuickSeconds)
                   /\ (\E k \in Of(i) : td[k].issue = "Step took too long")
                          <=> d > Seconds(TooLongSeconds)
                   /\ Of(i) # {} <=>
                          (d < Seconds(TooQuickSeconds) \/ d > Seconds(TooLongSeconds))

\* A 400 s period mapped to step 1 is flagged too long with actual = 400.
C10_Witness ==
    /\ deltas # <<>>
    /\ Len(assembly_steps) >= 1
    /\ Len(video_periods) >= 1
    /\ video_periods[1].duration = Seconds(400)
    /\ \E k \in 1..Len(deltas[1].timing_deltas) :
           /\ deltas[1].timing_deltas[k].step = 1
           /\ deltas[1].timing_deltas[k].issue = "Step took too long"
           /\ deltas[1].timing_deltas[k].actual = Seconds(400)

\* ---- C3 .. C7: the identity tracker

\* C3: ids are given to new entities in strictly increasing order (so no
\* id is given twice, also after an eviction), every registered entity
\* carries the id it is registered under, and that id is one of those given.
C3_IdsStrictlyIncreasing ==
    /\ \A i \in 1..(Len(created_ids) - 1) : created_ids[i] < created_ids[i + 1]
    /\ \A i \in 1..Len(created_ids) : created_ids[i] < next_object_id
    /\ \A id \in DOMAIN tracked_objects :
           /\ tracked_objects[id].id = id
           /\ \E i \in 1..Len(created_ids) : created_ids[i] = id

\* The first entity was evicted and an entity created afterwards is
\* registered under a later id.
C3_Witness ==
    /\ Len(created_ids) >= 2
    /\ \E r \in removed :
           /\ r.id = created_ids[1]
           /\ r.id \notin DOMAIN tracked_objects
           /\ Last(created_ids) \in DOMAIN tracked_objects
           /\ tracked_objects[Last(created_ids)].first_seen_frame >= r.at

\* C4: over a process_frame call, an entity whose role is not Unknown
\* keeps its role: a role changes only if it was Unknown, and never back
\* to Unknown.
C4_RoleNeverBackToUnknown ==
    [][\A id \in DOMAIN tracked_objects \cap DOMAIN tracked_objects' :
           tracked_objects[id].object_type # UNKNOWN =>
               tracked_objects'[id].object_type = tracked_objects[id].object_type]_vars

\* In the last frame a region classified Unknown lay within the distance
\* threshold of an entity with a role, and that entity kept its role.
C4_Witness ==
    \E i \in 1..Len(match_log) :
        /\ match_log[i].type = UNKNOWN
        /\ \E k \in 1..Len(match_log[i].cands) :
               LET c == match_log[i].cands[k] IN
               /\ c.object_type # UNKNOWN
               /\ Dist2(c.center, match_log[i].center)
                      < config.max_distance_threshold * config.max_distance_threshold
               /\ c.id \in DOMAIN tracked_objects
               /\ tracked_objects[c.id].object_type = c.object_type

\* C5: after every process_frame call each registered entity was seen at
\* most dut_persistence_frames frames ago, and each eviction happened at
\* the frame last_seen_frame + dut_persistence_frames + 1: an unmatched
\* entity is registered exactly while frame_count - last_seen_frame is at
\* most dut_persistence_frames.
C5_PersistenceWindow ==
    /\ \A id \in DOMAIN tracked_objects :
           frame_count - tracked_objects[id].last_seen_frame
               <= config.dut_persistence_frames
    /\ \A r \in removed :
           r.at = r.last_seen_frame + config.dut_persistence_frames + 1

\* One entity has been evicted and another, unmatched for exactly
\* dut_persistence_frames frames, is still registered.
C5_Witness ==
    /\ removed # {}
    /\ \E id \in DOMAIN tracked_objects :
           frame_count - tracked_objects[id].last_seen_frame
               = config.dut_persistence_frames

\* C6: after every process_frame call the ids that own a Kalman filter are
\* the ids of the registry.
C6_FiltersMatchRegistry ==
    DOMAIN kalman_filters = DOMAIN tracked_objects

\* An entity has been evicted, its filter is gone, and other entities
\* (with their filters) remain.
C6_Witness ==
    /\ removed # {}
    /\ \A r \in removed : r.id \notin DOMAIN kalman_filters
    /\ DOMAIN tracked_objects # {}

\* C7: for each region of the last frame, the entities that qualify are
\* those whose role is the region's role or Unknown and whose distance to
\* the region's center (measured, as _update_tracking does, from the
\* position its Kalman filter predicts) is below max_distance_threshold.
\* If some entity qualifies the region is matched to a qualifying entity of
\* minimum distance and no entity is created; if none does, a new entity
\* is created under the next fresh id.
C7_MatchIsNearestEligible ==
    \A i \in 1..Len(match_log) :
        LET e == match_log[i]
            thr2 == config.max_distance_threshold * config.max_distance_threshold
            Qual == {k \in 1..Len(e.cands) :
                        /\ e.cands[k].object_type \in {e.type, UNKNOWN}
                        /\ e.cands[k].pos # <<>>
                        /\ Dist2(e.center, e.cands[k].pos) < thr2}
        IN  IF Qual = {}
            THEN /\ e.matched_id = -1
                 /\ e.created_id = e.next_id_before
                 /\ \A k \in 1..Len(e.cands) : e.cands[k].id < e.created_id
                 /\ e.created_id \in DOMAIN tracked_objects
                 /\ tracked_objects[e.created_id].first_seen_frame = frame_count
            ELSE /\ e.created_id = -1
                 /\ \E k \in Qual :
                        /\ e.cands[k].id = e.matched_id
                        /\ \A j \in Qual :
                               Dist2(e.center, e.cands[k].pos)
                                   <= Dist2(e.center, e.cands[j].pos)

\* A region had two qualifying entities at different distances and was
\* matched, while an entity of another role was passed over.
C7_Witness ==
    \E i \in 1..Len(match_log) :
        LET e == match_log[i]
            thr2 == config.max_distance_threshold * config.max_distance_threshold
            Qual == {k \in 1..Len(e.cands) :
                        /\ e.cands[k].object_type \in {e.type, UNKNOWN}
                        /\ e.cands[k].pos # <<>>
                        /\ Dist2(e.center, e.cands[k].pos) < thr2}
        IN  /\ e.matched_id # -1
            /\ \E j, k \in Qual :
                   Dist2(e.center, e.cands[j].pos) < Dist2(e.center, e.cands[k].pos)
            /\ \E k \in 1..Len(e.cands) :
                   /\ e.cands[k].object_type \notin {e.type, UNKNOWN}
                   /\ Dist2(e.center, e.cands[k].center) < thr2

\* ---- C11: the positional step mapping

\* C11: estimate_step_timing returns min(S, A) mappings; the i-th carries
\* the number and title of the i-th step and the start, end and duration
\* of the i-th period, with confidence 'low'.
C11_PositionalMapping ==
    estimated_steps # <<>> =>
        LET es == estimated_steps[1]
            S == Len(assembly_steps)
            A == Len(video_periods)
        IN  /\ Len(es) = IF S < A THEN S ELSE A
            /\ \A i \in 1..Len(es) :
                   /\ es[i].instruction_step = assembly_steps[i].step_number
                   /\ es[i].instruction_title = assembly_steps[i].title
                   /\ es[i].video_start = video_periods[i].start_time
                   /\ es[i].video_end = video_periods[i].end_time
                   /\ es[i].duration = video_periods[i].duration
                   /\ es[i].confidence = "low"

\* Two steps and three periods of different lengths: two mappings, the
\* third period is not mapped.
C11_Witness ==
    /\ estimated_steps # <<>>
    /\ Len(assembly_steps) = 2
    /\ Len(video_periods) = 3
    /\ Len(estimated_steps[1]) = 2
    /\ estimated_steps[1][1].duration # estimated_steps[1][2].duration
    /\ estimated_steps[1][2].instruction_step = 2

\* ---- C12: a recording without motion

\* C12 (as claimed): while no sampled frame has scored above the motion
\* threshold, detect_motion_events returns (no exception ends it) and
\* returns no event, identify_activity_periods returns no period, and for
\* S > 0 steps the comparator reports coverage 0 and missing_steps = S
\* without a division error.
C12_ZeroMotionBoundary ==
    ~motion_seen =>
        /\ va_error = "none"
        /\ va_pc \in {"detected", "identified", "compared"} => motion_events = <<>>
        /\ va_pc \in {"identified", "compared"} => activity_periods = <<>>
        /\ va_pc = "compared" =>
               /\ cmp_error = "none"
               /\ Len(assembly_steps) > 0 =>
                      /\ coverage # <<>>
                      /\ coverage[1].estimated_coverage.num = 0
                      /\ coverage[1].estimated_coverage.den > 0
                      /\ coverage[1].missing_steps = Len(assembly_steps)

\* ---- C13, C14: unreadable frames and degenerate stream headers

\* C13 (as claimed): a frame that cannot be read is skipped and the frames
\* after it are still processed: when detect_motion_events has returned,
\* no readable frame was left behind the read that failed.
C13_BadFrameSkipped ==
    va_pc \in {"detected", "identified"} => ~frames_unread

\* C14 (as claimed): for a stream whose frame rate is 0 the reported
\* duration is 0, no division fault ends detect_motion_events, and
\* get_video_info completes without one.
C14_ZeroFpsNoDivisionFault ==
    fps = 0 =>
        /\ duration.num = 0 /\ duration.den > 0
        /\ va_error = "none"
        /\ info_error = "none"

\* ---- C15: configuration loading

\* A threshold that is an area, a frame count or a distance is valid when
\* it is a positive number.
IsValidValue(v) == v > 0

\* C15 (as claimed): in the loaded configuration a key the file sets to a
\* valid value holds that value, and every other key (set to zero or a
\* negative value, or absent from the file) holds its default.
C15_InvalidValuesFallBack ==
    DOMAIN config # {} =>
        \A k \in DOMAIN DefaultConfig :
            IF k \in DOMAIN user_config /\ IsValidValue(user_config[k])
            THEN config[k] = user_config[k]
            ELSE config[k] = DefaultConfig[k]

\* ---- C16: areas

\* C16: after every process_frame call every registered entity has
\* area > 0, with the default configuration and with one that admits
\* every contour.
C16_AreaPositive ==
    \A id \in DOMAIN tracked_objects : tracked_objects[id].area > 0

\* Under the configuration without a lower area bound, the smallest
\* contour was created with its contour area in this frame while an
\* entity matched earlier carries the area of its bounding box.
C16_Witness ==
    /\ config.min_object_area < 0
    /\ \E i \in 1..Len(match_log) :
           /\ match_log[i].created_id \in DOMAIN tracked_objects
           /\ tracked_objects[match_log[i].created_id].area = ContourS.area
    /\ \E id \in DOMAIN tracked_objects :
           /\ tracked_objects[id].last_seen_frame > tracked_objects[id].first_seen_frame
           /\ tracked_objects[id].area
                  = tracked_objects[id].bbox[3] * tracked_objects[id].bbox[4]
           /\ tracked_objects[id].area # ContourA.area

\* ---- C18: the trajectory history

\* The centers of the regions of log matched to entity id, in order.
RECURSIVE MatchedCenters(_, _)
MatchedCenters(log, id) ==
    IF log = <<>> THEN <<>>
    ELSE (IF Head(log).matched_id = id THEN <<Head(log).center>> ELSE <<>>)
         \o MatchedCenters(Tail(log), id)

\* The last HistoryMaxLen points of h.
NewestPoints(h) ==
    IF Len(h) <= HistoryMaxLen THEN h
    ELSE SubSeq(h, Len(h) - HistoryMaxLen + 1, Len(h))

\* C18: over a process_frame call, every history holds at most 30 points
\* afterwards; an entity that is not matched keeps its history, and each
\* match appends the center of the matched region at the end, the oldest
\* point being dropped when 30 points were held.
C18_HistoryBounded ==
    [][/\ \A id \in DOMAIN tracked_objects' :
              Len(tracked_objects'[id].motion_history) <= HistoryMaxLen
       /\ \A id \in DOMAIN tracked_objects \cap DOMAIN tracked_objects' :
              LET h == tracked_objects[id].motion_history
                  h2 == tracked_objects'[id].motion_history
                  cs == MatchedCenters(match_log', id)
              IN  /\ h2 = NewestPoints(h \o cs)
                  /\ Len(cs) = 1 =>
                         h2 = IF Len(h) = HistoryMaxLen
                              THEN Append(Tail(h), cs[1])
                              ELSE Append(h, cs[1])]_vars

\* An entity has been matched more than 30 times: its history holds 30
\* points, ends with its center, and no longer starts with the point of
\* its first match.
C18_Witness ==
    \E id \in DOMAIN tracked_objects :
        LET t == tracked_objects[id] IN
        /\ Len(t.motion_history) = HistoryMaxLen
        /\ t.last_seen_frame - t.first_seen_frame > HistoryMaxLen
        /\ t.motion_history[HistoryMaxLen] = t.center
        /\ t.motion_history[1]
               = CenterOf(BoxContour(t.last_seen_frame - HistoryMaxLen + 1).bbox)

\* ---- C19: frame indices

\* C19: each process_frame call advances frame_count by exactly 1, and
\* after it every registered entity has
\* 1 <= first_seen_frame <= last_seen_frame <= frame_count.
C19_FrameIndicesOrdered ==
    [][/\ frame_count' = frame_count + 1
       /\ \A id \in DOMAIN tracked_objects' :
              /\ 1 <= tracked_objects'[id].first_seen_frame
              /\ tracked_objects'[id].first_seen_frame
                     <= tracked_objects'[id].last_seen_frame
              /\ tracked_objects'[id].last_seen_frame <= frame_count']_vars

\* An entity created after the first frame, matched in a later frame and
\* not matched in the last one.
C19_Witness ==
    \E id \in DOMAIN tracked_objects :
        /\ 1 < tracked_objects[id].first_seen_frame
        /\ tracked_objects[id].first_seen_frame < tracked_objects[id].last_seen_frame
        /\ tracked_objects[id].last_seen_frame < frame_count

\* ---- C20: the DUT rule

\* C20 (as claimed): a region that is classified neither as a hand nor as
\* Conveyor and whose area lies strictly between 1000 and 10000 is
\* classified DUT with confidence 0.7, wherever its center lies.
C20_MidSizeIsDut ==
    \A id \in DOMAIN tracked_objects :
        LET t == tracked_objects[id] IN
        (/\ t.object_type \notin {LEFT_HAND, RIGHT_HAND, CONVEYOR}
         /\ DutMinArea < t.area /\ t.area < DutMaxArea)
            => /\ t.object_type = DUT
               /\ t.confidence.num * 10 = 7 * t.confidence.den

\* ---- C21: the hand rule

\* The number of pixels of the box bbox that the rectangle r covers: the
\* product of the lengths the two share on each axis.
SharedLength(lo1, len1, lo2, len2) ==
    Max2(0, Min2(lo1 + len1, lo2 + len2) - Max2(lo1, lo2))
CoveredPixels(bbox, r) ==
    SharedLength(bbox[1], bbox[3], r[1], r[3])
        * SharedLength(bbox[2], bbox[4], r[2], r[4])

\* C21: for each region of the last frame, let c be the largest number
\* of its box's pixels covered by one skin region.  If c / (w h) exceeds
\* hand_detection_threshold the region is LeftHand when its center is left
\* of width // 2 and RightHand otherwise, with confidence c / (w h), which
\* lies in [0, 1], whatever its area and height in the frame; if not, it
\* is not a hand.
C21_HandRule ==
    \A i \in 1..Len(match_log) :
        LET e == match_log[i]
            box_area == e.bbox[3] * e.bbox[4]
            Covers == {CoveredPixels(e.bbox, last_frame.hands[k]) :
                          k \in 1..Len(last_frame.hands)} \cup {0}
            c == CHOOSE m \in Covers : \A n \in Covers : n <= m
            thr == config.hand_detection_threshold
        IN  IF c * thr.den > thr.num * box_area
            THEN /\ e.type = IF e.center[1] < FrameWidth \div 2
                             THEN LEFT_HAND ELSE RIGHT_HAND
                 /\ e.confidence.num * box_area = c * e.confidence.den
                 /\ 0 <= e.confidence.num
                 /\ e.confidence.num <= e.confidence.den
            ELSE e.type \notin {LEFT_HAND, RIGHT_HAND}

\* A region in the bottom band, right of the midline, of an area above the
\* conveyor bound, under two skin regions that cover 55% and 70% of its
\* box: it is a right hand with confidence 0.7.
C21_Witness ==
    /\ Len(last_frame.hands) = 2
    /\ \E id \in DOMAIN tracked_objects :
           LET t == tracked_objects[id] IN
           /\ t.object_type = RIGHT_HAND
           /\ t.area > ConveyorMinArea
           /\ t.center[2] * 10 > FrameHeight * 7
           /\ t.confidence.num * 10 = 7 * t.confidence.den
           /\ CoveredPixels(t.bbox, last_frame.hands[1]) * 100
                  = 55 * t.bbox[3] * t.bbox[4]

\* ---- C22: the fixture rule

\* C22 (as claimed, its consequence): an entity is matched in at most one
\* frame per process_frame call, so no entity has been matched in 6 frames
\* before the seventh call: up to the sixth call no region is classified
\* Fixture and no entity has role Fixture.
C22_NoFixtureBeforeSixMatches ==
    frame_count <= MinHistory + 1 =>
        /\ \A id \in DOMAIN tracked_objects :
               tracked_objects[id].object_type # FIXTURE
        /\ \A i \in 1..Len(match_log) : match_log[i].type # FIXTURE

\* ---- C23: one match per entity and frame

\* C23 (as claimed): no two regions of the last frame were matched to the
\* same entity.
C23_OneMatchPerEntity ==
    \A i, j \in 1..Len(match_log) :
        (match_log[i].matched_id # -1
            /\ match_log[i].matched_id = match_log[j].matched_id) => i = j

\* ---- C24: the gap rule

\* Event i of evs comes at least 5 s after the event before it.
GapBefore(evs, i) ==
    i > 1 /\ evs[i].timestamp - evs[i - 1].timestamp >= Seconds(GapSeconds)

\* Events i..j of evs are a closed run: a gap or nothing before event i,
\* no gap inside, and a gap between event j and the event after it.
IsClosedRun(evs, i, j) ==
    /\ 1 <= i /\ i <= j /\ j < Len(evs)
    /\ i = 1 \/ GapBefore(evs, i)
    /\ \A k \in (i + 1)..j : ~GapBefore(evs, k)
    /\ GapBefore(evs, j + 1)

\* C24: once identify_activity_periods has returned, every period holds
\* the events of a closed run of motion_events and ends at the timestamp
\* of the run's last event, so that its consecutive events are less than
\* 5 s apart and the event that closed it came 5 s or more after its last
\* event; the first event of each next period comes 5 s or more after the
\* last event of the period before; and every closed run that lasts more
\* than 2 s is one of the periods (an event 5 s or more after the end
\* does close the period).
C24_GapRule ==
    va_pc = "identified" =>
        LET evs == motion_events
            ps == activity_periods
        IN  /\ \A n \in 1..Len(ps) :
                   /\ \E i, j \in 1..Len(evs) :
                          /\ IsClosedRun(evs, i, j)
                          /\ ps[n].events = SubSeq(evs, i, j)
                          /\ ps[n].end_time = evs[j].timestamp
                   /\ \A k \in 2..Len(ps[n].events) :
                          ps[n].events[k].timestamp - ps[n].events[k - 1].timestamp
                              < Seconds(GapSeconds)
            /\ \A n \in 1..(Len(ps) - 1) :
                   ps[n + 1].events[1].timestamp - Last(ps[n].events).timestamp
                       >= Seconds(GapSeconds)
            /\ \A i, j \in 1..Len(evs) :
                   (/\ IsClosedRun(evs, i, j)
                    /\ evs[j].timestamp - evs[i].timestamp > Seconds(MinPeriodSeconds))
                       => \E n \in 1..Len(ps) : ps[n].events = SubSeq(evs, i, j)

\* A period was returned whose events are 3 s apart and which was closed
\* by an event exactly 5 s after its last one.
C24_Witness ==
    /\ va_pc = "identified"
    /\ \E n \in 1..Len(activity_periods) :
           LET p == activity_periods[n] IN
           /\ Len(p.events) = 2
           /\ p.events[2].timestamp - p.events[1].timestamp = Seconds(3)
           /\ \E k \in 1..Len(motion_events) :
                  motion_events[k].timestamp = p.end_time + Seconds(GapSeconds)

\* ---- C25: which sampled frames give an event

\* C25 (as claimed): of the sampled frames read so far, the k-th (frame
\* (k - 1) sample_rate) has an event if and only if it is not the first
\* and its score exceeds 10; it has at most one, tagged high_motion if and
\* only if the score exceeds 30 and moderate_motion otherwise.
C25_EventIffMotion ==
    \A k \in 1..Len(sample_scores) :
        LET Evs == {i \in 1..Len(events) :
                       events[i].frame = (k - 1) * sample_rate}
        IN  /\ Cardinality(Evs) <= 1
            /\ Evs # {} <=> (k > 1 /\ sample_scores[k] > MotionThreshold)
            /\ \A i \in Evs :
                   /\ events[i].motion_score = sample_scores[k]
                   /\ events[i].type =
                          IF sample_scores[k] > HighMotionThreshold
                          THEN "high_motion" ELSE "moderate_motion"

\* ---- C26: the sampling loop ends

\* C26: the sampling loop ends (by the read that fails, or by an
\* exception), and at every moment the events found so far, and those
\* returned, have strictly increasing frame indices, each a multiple of
\* sample_rate, and timestamp = frame/fps (here in milliseconds).
C26_LoopEndsEventsOrdered ==
    /\ <>(va_pc # "sampling")
    /\ [](\A evs \in {events, motion_events} :
              /\ \A i \in 1..(Len(evs) - 1) : evs[i].frame < evs[i + 1].frame
              /\ \A i \in 1..Len(evs) :
                     /\ evs[i].frame % sample_rate = 0
                     /\ evs[i].timestamp * fps = evs[i].frame * 1000)

\* The loop has read MaxSamples frames, the read after them failed at the
\* end of the stream, and several events were returned.
C26_Witness ==
    /\ va_pc = "detected"
    /\ ~frames_unread
    /\ frame_idx = MaxSamples * sample_rate
    /\ Len(motion_events) >= 3

\* ---- C27: the velocity

\* The velocity a new TrackedObject carries: (0.0, 0.0).
InitialVelocity == [dx |-> 0, dy |-> 0, frames |-> 1]

\* C27: no velocity is a quotient by zero, and over a process_frame call
\* the velocity of an entity is recomputed once, at its first match of the
\* frame if it was last seen in an earlier frame, as (center delta) /
\* (frames elapsed); an entity that is not matched keeps its velocity,
\* and a match in the frame the entity was last seen in (a second match
\* of the frame, or a match in the frame of its creation) leaves the
\* velocity as it is while bbox, center, area and history follow the
\* region matched last.
C27_VelocityGuarded ==
    [][\A id \in DOMAIN tracked_objects' :
           LET t2 == tracked_objects'[id]
               cs == MatchedCenters(match_log', id)
           IN  /\ t2.velocity.frames > 0
               /\ cs # <<>> =>
                      /\ t2.center = Last(cs)
                      /\ t2.center = CenterOf(t2.bbox)
                      /\ t2.area = t2.bbox[3] * t2.bbox[4]
                      /\ Last(t2.motion_history) = Last(cs)
                      /\ t2.last_seen_frame = frame_count'
               /\ IF id \in DOMAIN tracked_objects
                  THEN LET t == tracked_objects[id] IN
                       IF cs = <<>>
                       THEN t2.velocity = t.velocity
                       ELSE t2.velocity =
                                [dx |-> cs[1][1] - t.center[1],
                                 dy |-> cs[1][2] - t.center[2],
                                 frames |-> frame_count' - t.last_seen_frame]
                  ELSE /\ t2.velocity = InitialVelocity
                       /\ t2.motion_history = cs]_vars

\* An entity of an earlier frame was matched by two regions of the last
\* frame: it has the box and center of the second and the history of
\* both, while its velocity is a move by the 50 pixels between them, the
\* one computed at the first match.
C27_Witness ==
    \E i, j \in 1..Len(match_log) :
        /\ i < j
        /\ match_log[i].matched_id = match_log[j].matched_id
        /\ match_log[i].matched_id \in DOMAIN tracked_objects
        /\ LET t == tracked_objects[match_log[i].matched_id] IN
           /\ t.first_seen_frame < frame_count
           /\ t.bbox = match_log[j].bbox
           /\ t.center = match_log[j].center
           /\ match_log[i].center # match_log[j].center
           /\ Len(t.motion_history) >= 2
           /\ t.motion_history[Len(t.motion_history) - 1] = match_log[i].center
           /\ t.velocity.dx = -50

\* ---- C28: identity

\* C28: over a process_frame call every entity that stays registered
\* keeps its id and first_seen_frame, an id that enters the registry has
\* not been given before, and no id ever removed is registered.
C28_IdentityStable ==
    [][/\ \A id \in DOMAIN tracked_objects \cap DOMAIN tracked_objects' :
              /\ tracked_objects'[id].id = tracked_objects[id].id
              /\ tracked_objects'[id].first_seen_frame
                     = tracked_objects[id].first_seen_frame
       /\ \A id \in DOMAIN tracked_objects' \ DOMAIN tracked_objects :
              /\ id >= next_object_id
              /\ \A i \in 1..Len(created_ids) : created_ids[i] # id
       /\ \A r \in removed' : r.id \notin DOMAIN tracked_objects']_vars

\* An entity that went unmatched for dut_persistence_frames frames after
\* the frame of its creation was matched in the last frame (its history
\* holds that one match), under the id and first_seen_frame it was created
\* with, after another entity had been removed.
C28_Witness ==
    /\ removed # {}
    /\ \E i \in 1..Len(match_log) :
           LET id == match_log[i].matched_id IN
           /\ id \in DOMAIN tracked_objects
           /\ tracked_objects[id].id = id
           /\ tracked_objects[id].first_seen_frame
                  = frame_count - config.dut_persistence_frames - 1
           /\ tracked_objects[id].last_seen_frame = frame_count
           /\ Len(tracked_objects[id].motion_history) = 1

\* ---- C29: the search and the filters

\* C29 (as claimed): over a process_frame call, the filter of an entity
\* that no region of the frame was matched to is as it was, or advanced
\* by one prediction.
C29_SearchLeavesFiltersAlone ==
    [][\A id \in DOMAIN kalman_filters \cap DOMAIN kalman_filters' :
           (\A i \in 1..Len(match_log') : match_log'[i].matched_id # id)
               => kalman_filters'[id] \in {kalman_filters[id],
                                           KalmanPredict(kalman_filters[id])}]_vars

\* ---- C30: the frames a tracker is given

\* C30 (as claimed): the frames passed to each ObjectTracker instance come
\* from one video, in strictly increasing position.
C30_OneStreamInOrder ==
    \A k \in 1..Len(frames_fed) :
        LET f == frames_fed[k] IN
        /\ \A i, j \in 1..Len(f) : f[i][1] = f[j][1]
        /\ \A i \in 1..(Len(f) - 1) : f[i][2] < f[i + 1][2]

====
